---- MODULE Spec2Model ----
(***************************************************************************)
(* RateYourGroupMates: the peer-rating form (PeerRatingForm) and the recap *)
(* page (RecapPage), modelled as state machines over the Supabase tables.  *)
(***************************************************************************)
EXTENDS Integers, Sequences, FiniteSets, TLC

(* ------------------------------------------------------------------ *)
(* Bounds of the model                                                 *)
(* ------------------------------------------------------------------ *)

\* number of rows the form adds to peer_ratings in one behaviour
MaxRatings == 1

\* number of rating rows the recap query returns
MaxRows == 3

(* ------------------------------------------------------------------ *)
(* Numbers as the form sees them: a rational num/den, NaN being 0/0    *)
(* (register('ratingScore', { valueAsNumber: true }))                  *)
(* ------------------------------------------------------------------ *)

Num(n) == [num |-> n, den |-> 1]

NaN == [num |-> 0, den |-> 0]

IsNaN(x) == x.den = 0

IsInteger(x) == x.den # 0 /\ x.num % x.den = 0

\* what the user can leave in the score input: empty (NaN), 0, 2.5, 3, 5, 6
ScoreInputs == {NaN, Num(0), [num |-> 5, den |-> 2], Num(3), Num(5), Num(6)}

CommentInputs == {"", "Great work"}

(* ------------------------------------------------------------------ *)
(* The tables the form reads                                           *)
(* ------------------------------------------------------------------ *)

DbClasses ==
    << [class_id |-> "C1", class_name |-> "CS101"],
       [class_id |-> "C2", class_name |-> "CS102"] >>

DbProjectGroups ==
    << [group_id |-> "G1", class_id |-> "C1", group_name |-> "Team A"],
       [group_id |-> "G2", class_id |-> "C2", group_name |-> "Team B"],
       [group_id |-> "G3", class_id |-> "C1", group_name |-> "Team C"] >>

\* rows peer_ratings holds before the form is opened
DbPeerRatings ==
    << [rating_id |-> 1, rater_id |-> "S1", ratee_id |-> "S2",
        rating_score |-> 3, rating_comment |-> ""] >>

DbParticipants ==
    << [nrp |-> "S1", full_name |-> "Alice", group_id |-> "G1"],
       [nrp |-> "S2", full_name |-> "Bob",   group_id |-> "G1"],
       [nrp |-> "S3", full_name |-> "Carol", group_id |-> "G2"],
       [nrp |-> "S4", full_name |-> "Dave",  group_id |-> "G3"] >>

Range(s) == {s[i] : i \in DOMAIN s}

RemoveAt(s, i) == SubSeq(s, 1, i - 1) \o SubSeq(s, i + 1, Len(s))

\* supabase.from('classes').select('class_id, class_name')
SelectClasses == DbClasses

\* supabase.from('project_groups').select('group_id, group_name').eq('class_id', c)
SelectGroups(c) ==
    LET Cols(g) == [group_id |-> g.group_id, group_name |-> g.group_name]
        Eq(g) == g.class_id = c
        rows == SelectSeq(DbProjectGroups, Eq)
    IN  [i \in DOMAIN rows |-> Cols(rows[i])]

\* supabase.from('participants').select('nrp, full_name').eq('group_id', g)
SelectParticipants(g) ==
    LET Cols(p) == [nrp |-> p.nrp, full_name |-> p.full_name]
        Eq(p) == p.group_id = g
        rows == SelectSeq(DbParticipants, Eq)
    IN  [i \in DOMAIN rows |-> Cols(rows[i])]

(* ------------------------------------------------------------------ *)
(* State                                                               *)
(* ------------------------------------------------------------------ *)

VARIABLES
    \* react-hook-form values
    classId, groupId, raterId, rateeId, ratingScore, ratingComment,
    \* react-hook-form formState
    errors, isSubmitted,
    \* component state of PeerRatingForm
    classes, groups, participants, isLoading, isSubmitting,
    \* requests that have not resolved yet
    fetches, inserts,
    \* table peer_ratings
    peer_ratings,
    \* RecapPage: the rows its query returns, its component state, and the
    \* place fetchData has reached
    rawData, data, loading, error, fetchDataAt

values == <<classId, groupId, raterId, rateeId, ratingScore, ratingComment>>

formState == <<errors, isSubmitted>>

lists == <<classes, groups, participants>>

formVars ==
    <<values, formState, lists, isLoading, isSubmitting, fetches, inserts,
      peer_ratings>>

recapVars == <<rawData, data, loading, error, fetchDataAt>>

vars == <<formVars, recapVars>>

(* ------------------------------------------------------------------ *)
(* PeerRatingForm                                                      *)
(* ------------------------------------------------------------------ *)

defaultValues ==
    [ratingScore |-> Num(3), classId |-> "", groupId |-> "", raterId |-> "",
     rateeId |-> "", ratingComment |-> ""]

FormValues ==
    [classId |-> classId, groupId |-> groupId, raterId |-> raterId,
     rateeId |-> rateeId, ratingScore |-> ratingScore,
     ratingComment |-> ratingComment]

\* variant: the range test alone, which NaN passes
ZRatingScoreAcceptsNaN(x) == x.num >= 1 * x.den /\ x.num <= 5 * x.den

\* z.number().min(1).max(5): NaN is no number for zod
ZRatingScore(x) == ~IsNaN(x) /\ x.num >= 1 * x.den /\ x.num <= 5 * x.den

\* variant: the checks stop at the first field that fails
RatingSchemaFirstOnly(v) ==
    IF v.classId = "" THEN {"classId"}
    ELSE IF v.groupId = "" THEN {"groupId"}
    ELSE IF v.raterId = "" THEN {"raterId"}
    ELSE IF v.rateeId = "" THEN {"rateeId"}
    ELSE IF ~ZRatingScore(v.ratingScore) THEN {"ratingScore"}
    ELSE {}

\* the fields of v for which the zod schema raises an issue
RatingSchema(v) ==
    {f \in {"classId", "groupId", "raterId", "rateeId"} : v[f] = ""}
        \cup (IF ZRatingScore(v.ratingScore) THEN {} ELSE {"ratingScore"})

\* reValidateMode onChange: once the form was submitted, a change event
\* validates the changed field again
Revalidate(field, v) ==
    IF isSubmitted
    THEN (errors \ {field}) \cup ({field} \cap RatingSchema(v))
    ELSE errors

\* variant: the filter left out
rateeOptionsAll == participants

\* const rateeOptions = participants.filter(p => p.nrp !== selectedRater)
rateeOptions ==
    LET NotRater(p) == p.nrp # raterId
    IN  SelectSeq(participants, NotRater)

\* variant: the class select stays enabled while a fetch is pending
ClassDisabledWhileSubmitting == isSubmitting

\* disabled={isLoading || isSubmitting}
ClassDisabled == isLoading \/ isSubmitting

\* variant: the group select stays enabled while a fetch is pending
GroupDisabledWhileSubmitting == classId = "" \/ isSubmitting

GroupDisabled == classId = "" \/ isLoading \/ isSubmitting

RaterDisabled == groupId = "" \/ isLoading \/ isSubmitting

RateeDisabled ==
    raterId = "" \/ Len(rateeOptions) = 0 \/ isLoading \/ isSubmitting

ScoreDisabled == isLoading \/ isSubmitting

CommentDisabled == isLoading \/ isSubmitting

\* variant: the submit button stays enabled while a fetch is pending
SubmitDisabledWhileSubmitting == isSubmitting

\* variant: the submit button stays enabled while an insert is pending
SubmitDisabledWhileLoading == isLoading

\* disabled={isLoading || isSubmitting}
SubmitDisabled == isLoading \/ isSubmitting

ClassOptions == {""} \cup {c.class_id : c \in Range(classes)}

GroupOptions == {""} \cup {g.group_id : g \in Range(groups)}

RaterOptions == {""} \cup {p.nrp : p \in Range(participants)}

RateeOptionValues == {""} \cup {p.nrp : p \in Range(rateeOptions)}

Request(table, eq) == [table |-> table, eq |-> eq]

\* After mount: the three effects have run once; fetchClasses is awaiting,
\* fetchGroups and fetchParticipants returned early on the empty selection.
FormInit ==
    /\ classId = defaultValues.classId
    /\ groupId = defaultValues.groupId
    /\ raterId = defaultValues.raterId
    /\ rateeId = defaultValues.rateeId
    /\ ratingScore = defaultValues.ratingScore
    /\ ratingComment = defaultValues.ratingComment
    /\ errors = {}
    /\ isSubmitted = FALSE
    /\ classes = <<>>
    /\ groups = <<>>
    /\ participants = <<>>
    /\ isLoading = TRUE
    /\ isSubmitting = FALSE
    /\ fetches = <<Request("classes", "")>>
    /\ inserts = <<>>
    /\ peer_ratings = DbPeerRatings

\* fetchClasses after its await
FetchClassesResolve(i, ok) ==
    /\ i \in DOMAIN fetches
    /\ fetches[i].table = "classes"
    /\ classes' = IF ok THEN SelectClasses ELSE classes
    /\ isLoading' = FALSE
    /\ fetches' = RemoveAt(fetches, i)
    /\ UNCHANGED <<values, formState, groups, participants, isSubmitting,
                   inserts, peer_ratings, recapVars>>

\* the user picks another class; the effect on selectedClass runs, and the
\* effect on selectedGroup after it when groupId was cleared
SelectClass(c) ==
    /\ ~ClassDisabled
    /\ c \in ClassOptions
    /\ c # classId
    /\ classId' = c
    /\ errors' = Revalidate("classId", [FormValues EXCEPT !.classId = c])
    /\ groupId' = ""
    /\ raterId' = ""
    /\ rateeId' = ""
    /\ participants' = <<>>
    /\ IF c = ""
       THEN /\ groups' = <<>>
            /\ UNCHANGED <<isLoading, fetches>>
       ELSE /\ isLoading' = TRUE
            /\ fetches' = Append(fetches, Request("project_groups", c))
            /\ UNCHANGED groups
    /\ UNCHANGED <<ratingScore, ratingComment, isSubmitted, classes,
                   isSubmitting, inserts, peer_ratings, recapVars>>

\* variant: a failed fetch leaves the groups as they are, as fetchClasses
\* leaves the classes
FetchGroupsResolveKeeps(i, ok) ==
    /\ i \in DOMAIN fetches
    /\ fetches[i].table = "project_groups"
    /\ groups' = IF ok THEN SelectGroups(fetches[i].eq) ELSE groups
    /\ isLoading' = FALSE
    /\ fetches' = RemoveAt(fetches, i)
    /\ UNCHANGED <<values, formState, classes, participants, isSubmitting,
                   inserts, peer_ratings, recapVars>>

\* fetchGroups after its await
FetchGroupsResolve(i, ok) ==
    /\ i \in DOMAIN fetches
    /\ fetches[i].table = "project_groups"
    /\ groups' = IF ok THEN SelectGroups(fetches[i].eq) ELSE <<>>
    /\ isLoading' = FALSE
    /\ fetches' = RemoveAt(fetches, i)
    /\ UNCHANGED <<values, formState, classes, participants, isSubmitting,
                   inserts, peer_ratings, recapVars>>

\* the user picks another group; the effect on selectedGroup runs
SelectGroup(g) ==
    /\ ~GroupDisabled
    /\ g \in GroupOptions
    /\ g # groupId
    /\ groupId' = g
    /\ errors' = Revalidate("groupId", [FormValues EXCEPT !.groupId = g])
    /\ raterId' = ""
    /\ rateeId' = ""
    /\ IF g = ""
       THEN /\ participants' = <<>>
            /\ UNCHANGED <<isLoading, fetches>>
       ELSE /\ isLoading' = TRUE
            /\ fetches' = Append(fetches, Request("participants", g))
            /\ UNCHANGED participants
    /\ UNCHANGED <<classId, ratingScore, ratingComment, isSubmitted, classes,
                   groups, isSubmitting, inserts, peer_ratings, recapVars>>

\* variant: a failed fetch leaves the participants as they are
FetchParticipantsResolveKeeps(i, ok) ==
    /\ i \in DOMAIN fetches
    /\ fetches[i].table = "participants"
    /\ participants' =
          IF ok THEN SelectParticipants(fetches[i].eq) ELSE participants
    /\ isLoading' = FALSE
    /\ fetches' = RemoveAt(fetches, i)
    /\ UNCHANGED <<values, formState, classes, groups, isSubmitting,
                   inserts, peer_ratings, recapVars>>

\* fetchParticipants after its await
FetchParticipantsResolve(i, ok) ==
    /\ i \in DOMAIN fetches
    /\ fetches[i].table = "participants"
    /\ participants' = IF ok THEN SelectParticipants(fetches[i].eq) ELSE <<>>
    /\ isLoading' = FALSE
    /\ fetches' = RemoveAt(fetches, i)
    /\ UNCHANGED <<values, formState, classes, groups, isSubmitting,
                   inserts, peer_ratings, recapVars>>

\* the user picks another rater: no effect depends on selectedRater
SelectRater(r) ==
    /\ ~RaterDisabled
    /\ r \in RaterOptions
    /\ r # raterId
    /\ raterId' = r
    /\ errors' = Revalidate("raterId", [FormValues EXCEPT !.raterId = r])
    /\ UNCHANGED <<classId, groupId, rateeId, ratingScore, ratingComment,
                   isSubmitted, lists, isLoading, isSubmitting, fetches,
                   inserts, peer_ratings, recapVars>>

SelectRatee(e) ==
    /\ ~RateeDisabled
    /\ e \in RateeOptionValues
    /\ e # rateeId
    /\ rateeId' = e
    /\ errors' = Revalidate("rateeId", [FormValues EXCEPT !.rateeId = e])
    /\ UNCHANGED <<classId, groupId, raterId, ratingScore, ratingComment,
                   isSubmitted, lists, isLoading, isSubmitting, fetches,
                   inserts, peer_ratings, recapVars>>

SetScore(s) ==
    /\ ~ScoreDisabled
    /\ s \in ScoreInputs
    /\ s # ratingScore
    /\ ratingScore' = s
    /\ errors' = Revalidate("ratingScore", [FormValues EXCEPT !.ratingScore = s])
    /\ UNCHANGED <<classId, groupId, raterId, rateeId, ratingComment,
                   isSubmitted, lists, isLoading, isSubmitting, fetches,
                   inserts, peer_ratings, recapVars>>

SetComment(t) ==
    /\ ~CommentDisabled
    /\ t \in CommentInputs
    /\ t # ratingComment
    /\ ratingComment' = t
    /\ UNCHANGED <<classId, groupId, raterId, rateeId, ratingScore, formState,
                   lists, isLoading, isSubmitting, fetches, inserts,
                   peer_ratings, recapVars>>

\* variant: the class and the group are sent along with the rating
InsertRecordWithGroup(d) ==
    [rater_id |-> d.raterId, ratee_id |-> d.rateeId,
     rating_score |-> d.ratingScore, rating_comment |-> d.ratingComment,
     class_id |-> d.classId, group_id |-> d.groupId]

\* the record onSubmit hands to insert
InsertRecord(d) ==
    [rater_id |-> d.raterId, ratee_id |-> d.rateeId,
     rating_score |-> d.ratingScore, rating_comment |-> d.ratingComment]

\* onSubmit up to its await: setIsSubmitting(true), one insert issued
onSubmit(d) ==
    /\ isSubmitting' = TRUE
    /\ inserts' = Append(inserts, InsertRecord(d))

\* handleSubmit(onSubmit): the resolver runs; onSubmit is called when it
\* raises no issue
handleSubmit ==
    /\ ~SubmitDisabled
    /\ errors' = RatingSchema(FormValues)
    /\ isSubmitted' = TRUE
    /\ IF RatingSchema(FormValues) = {}
       THEN onSubmit(FormValues)
       ELSE UNCHANGED <<isSubmitting, inserts>>
    /\ UNCHANGED <<values, lists, isLoading, fetches, peer_ratings, recapVars>>

\* table peer_ratings: NOT NULL ids that reference participants(nrp), and an
\* integer rating_score with CHECK (rating_score >= 1 AND rating_score <= 5)
StoreAccepts(r) ==
    /\ r.rater_id \in {p.nrp : p \in Range(DbParticipants)}
    /\ r.ratee_id \in {p.nrp : p \in Range(DbParticipants)}
    /\ IsInteger(r.rating_score)
    /\ r.rating_score.num \div r.rating_score.den >= 1
    /\ r.rating_score.num \div r.rating_score.den <= 5

StoredRow(r) ==
    [rating_id |-> Len(peer_ratings) + 1,
     rater_id |-> r.rater_id, ratee_id |-> r.ratee_id,
     rating_score |-> r.rating_score.num \div r.rating_score.den,
     rating_comment |-> r.rating_comment]

\* variant: only the score and the comment go back to their defaults
resetScoreOnly ==
    /\ ratingScore' = defaultValues.ratingScore
    /\ ratingComment' = defaultValues.ratingComment
    /\ errors' = {}
    /\ isSubmitted' = FALSE
    /\ UNCHANGED <<classId, groupId, raterId, rateeId>>

\* reset(): every value back to defaultValues, formState cleared
reset ==
    /\ classId' = defaultValues.classId
    /\ groupId' = defaultValues.groupId
    /\ raterId' = defaultValues.raterId
    /\ rateeId' = defaultValues.rateeId
    /\ ratingScore' = defaultValues.ratingScore
    /\ ratingComment' = defaultValues.ratingComment
    /\ errors' = {}
    /\ isSubmitted' = FALSE

\* variant: the store keeps one row per (rater_id, ratee_id) and the insert
\* overwrites it
InsertOkUpsert(i) ==
    /\ i \in DOMAIN inserts
    /\ StoreAccepts(inserts[i])
    /\ Len(peer_ratings) < Len(DbPeerRatings) + MaxRatings
    /\ LET Same(k) == /\ peer_ratings[k].rater_id = inserts[i].rater_id
                      /\ peer_ratings[k].ratee_id = inserts[i].ratee_id
       IN  peer_ratings' =
              IF \E k \in DOMAIN peer_ratings : Same(k)
              THEN [peer_ratings EXCEPT
                       ![CHOOSE k \in DOMAIN peer_ratings : Same(k)] =
                           StoredRow(inserts[i])]
              ELSE Append(peer_ratings, StoredRow(inserts[i]))
    /\ reset
    /\ groups' = IF classId' # classId THEN <<>> ELSE groups
    /\ participants' =
          IF classId' # classId \/ groupId' # groupId THEN <<>> ELSE participants
    /\ isSubmitting' = FALSE
    /\ inserts' = RemoveAt(inserts, i)
    /\ UNCHANGED <<classes, isLoading, fetches, recapVars>>

\* onSubmit after its await, the insert accepted: reset(), then the effects
\* on the selections that reset() changed empty the lists
InsertOk(i) ==
    /\ i \in DOMAIN inserts
    /\ StoreAccepts(inserts[i])
    /\ Len(peer_ratings) < Len(DbPeerRatings) + MaxRatings
    /\ peer_ratings' = Append(peer_ratings, StoredRow(inserts[i]))
    /\ reset
    /\ groups' = IF classId' # classId THEN <<>> ELSE groups
    /\ participants' =
          IF classId' # classId \/ groupId' # groupId THEN <<>> ELSE participants
    /\ isSubmitting' = FALSE
    /\ inserts' = RemoveAt(inserts, i)
    /\ UNCHANGED <<classes, isLoading, fetches, recapVars>>

\* variant: the catch branch returns before isSubmitting is cleared
InsertErrorStaysSubmitting(i) ==
    /\ i \in DOMAIN inserts
    /\ inserts' = RemoveAt(inserts, i)
    /\ UNCHANGED <<values, formState, lists, isLoading, isSubmitting,
                   fetches, peer_ratings, recapVars>>

\* variant: the catch branch resets the form as the success branch does
InsertErrorResets(i) ==
    /\ i \in DOMAIN inserts
    /\ reset
    /\ isSubmitting' = FALSE
    /\ inserts' = RemoveAt(inserts, i)
    /\ UNCHANGED <<lists, isLoading, fetches, peer_ratings, recapVars>>

\* onSubmit after its await, the insert refused (constraint, connectivity)
InsertError(i) ==
    /\ i \in DOMAIN inserts
    /\ isSubmitting' = FALSE
    /\ inserts' = RemoveAt(inserts, i)
    /\ UNCHANGED <<values, formState, lists, isLoading, fetches,
                   peer_ratings, recapVars>>

(* ------------------------------------------------------------------ *)
(* RecapPage                                                           *)
(* ------------------------------------------------------------------ *)

\* a value that may be null: <<>> is null, <<x>> is x
Null == <<>>

Some(x) == <<x>>

\* identifiers are character strings; "-" may occur in them
RecapIds == {"a", "a-a"}

\* created_at as the database returns it: microseconds (timestamptz)
Timestamps == {1000, 1001, 2000}

MicrosPerMilli == 1000

\* new Date(created_at): a Date holds whole milliseconds
Date(t) == t \div MicrosPerMilli

TeamA == [group_id |-> "G1", group_name |-> "Team A"]

TeamB == [group_id |-> "G2", group_name |-> "Team B"]

\* participants!..._fkey(nrp, full_name, group_id, group:project_groups(...))
Joined(id, g) ==
    [nrp |-> id, full_name |-> "Name " \o id,
     group_id |-> IF g = Null THEN Null ELSE Some(g[1].group_id),
     group |-> g]

\* one row of the query: the i-th row returned, rater and ratee joined in
RawRatingRow(i, rater, ratee, t, groupOf) ==
    [rating_id |-> i, rater_id |-> rater, ratee_id |-> ratee,
     rating_score |-> ((i - 1) % 5) + 1, rating_comment |-> Null,
     created_at |-> t,
     rater |-> Joined(rater, groupOf[rater]),
     ratee |-> Joined(ratee, groupOf[ratee])]

\* const key = `${row.rater_id}-${row.ratee_id}`
Key(row) == row.rater_id \o "-" \o row.ratee_id

\* a Map as the sequence of its entries, in insertion order
MapHas(m, k) == \E i \in DOMAIN m : m[i].key = k

MapGet(m, k) == m[CHOOSE i \in DOMAIN m : m[i].key = k].value

\* Map.set: a key that is present keeps its place
MapSet(m, k, v) ==
    IF MapHas(m, k)
    THEN [i \in DOMAIN m |-> IF m[i].key = k THEN [key |-> k, value |-> v] ELSE m[i]]
    ELSE Append(m, [key |-> k, value |-> v])

\* variant: >= in place of >
ReplacesOnTie(row, m) ==
    \/ ~MapHas(m, Key(row))
    \/ Date(row.created_at) >= Date(MapGet(m, Key(row)).created_at)

\* if (!existing || new Date(row.created_at) > new Date(existing.created_at))
Replaces(row, m) ==
    \/ ~MapHas(m, Key(row))
    \/ Date(row.created_at) > Date(MapGet(m, Key(row)).created_at)

\* for (const row of rawData) { ... latestMap.set(key, row) }
RECURSIVE latestMap(_, _)
latestMap(rows, m) ==
    IF rows = <<>> THEN m
    ELSE latestMap(Tail(rows),
                   IF Replaces(Head(rows), m)
                   THEN MapSet(m, Key(Head(rows)), Head(rows))
                   ELSE m)

\* variant: the rater's group is preferred to the ratee's
RecapRowRaterFirst(row) ==
    LET group == IF row.rater.group # Null THEN row.rater.group[1]
                 ELSE IF row.ratee.group # Null THEN row.ratee.group[1]
                 ELSE [group_id |-> "N/A", group_name |-> "N/A"]
    IN  [group_id |-> group.group_id, group_name |-> group.group_name,
         ratee_id |-> row.ratee.nrp, ratee_name |-> row.ratee.full_name,
         rater_id |-> row.rater.nrp, rater_name |-> row.rater.full_name,
         rating_score |-> row.rating_score,
         rating_comment |-> row.rating_comment,
         created_at |-> row.created_at]

\* the callback of Array.from(latestMap.values()).map
RecapRow(row) ==
    LET group == IF row.ratee.group # Null THEN row.ratee.group[1]
                 ELSE IF row.rater.group # Null THEN row.rater.group[1]
                 ELSE [group_id |-> "N/A", group_name |-> "N/A"]
    IN  [group_id |-> group.group_id, group_name |-> group.group_name,
         ratee_id |-> row.ratee.nrp, ratee_name |-> row.ratee.full_name,
         rater_id |-> row.rater.nrp, rater_name |-> row.rater.full_name,
         rating_score |-> row.rating_score,
         rating_comment |-> row.rating_comment,
         created_at |-> row.created_at]

\* the strings of the model in the order of the collation localeCompare uses
CollationOrder == <<"a", "a-a", "G1", "G2", "N/A">>

Rank(s) == CHOOSE i \in DOMAIN CollationOrder : CollationOrder[i] = s

\* a.localeCompare(b): negative, zero or positive
localeCompare(a, b) ==
    IF Rank(a) < Rank(b) THEN -1 ELSE IF Rank(a) > Rank(b) THEN 1 ELSE 0

\* variant: the comparator looks at group_id alone
compareGroupOnly(a, b) == localeCompare(a.group_id, b.group_id)

\* the comparator handed to rows.sort
compare(a, b) ==
    IF a.group_id # b.group_id
    THEN localeCompare(a.group_id, b.group_id)
    ELSE localeCompare(a.ratee_id, b.ratee_id)

\* Array.prototype.sort is stable: x goes behind every row it does not precede
RECURSIVE InsertSorted(_, _)
InsertSorted(sorted, x) ==
    IF sorted = <<>> THEN <<x>>
    ELSE IF compare(x, sorted[Len(sorted)]) >= 0 THEN Append(sorted, x)
    ELSE Append(InsertSorted(SubSeq(sorted, 1, Len(sorted) - 1), x),
                sorted[Len(sorted)])

RECURSIVE sort(_)
sort(rows) ==
    IF rows = <<>> THEN <<>>
    ELSE InsertSorted(sort(SubSeq(rows, 1, Len(rows) - 1)), rows[Len(rows)])

\* Array.from(latestMap.values()).map(callback)
MapValues(m) == [i \in DOMAIN m |-> RecapRow(m[i].value)]

\* the data processing of fetchData: latest per key, flatten, sort
Recap(rows) == sort(MapValues(latestMap(rows, <<>>)))

\* useState([]), useState(true), useState(null), before fetchData's outcome
RecapIdle ==
    /\ rawData = <<>>
    /\ data = <<>>
    /\ loading = TRUE
    /\ error = Null
    /\ fetchDataAt = "await"

\* the table holds any rows: rater and ratee are participants, each
\* participant has a group or none
RecapInit ==
    /\ \E n \in 0..MaxRows :
         \E pick \in [1..n -> RecapIds \X RecapIds \X Timestamps] :
           \E groupOf \in [RecapIds -> {Null, Some(TeamA), Some(TeamB)}] :
             rawData = [i \in 1..n |->
                          RawRatingRow(i, pick[i][1], pick[i][2], pick[i][3], groupOf)]
    /\ data = <<>>
    /\ loading = TRUE
    /\ error = Null
    /\ fetchDataAt = "await"

\* if (!supabase): the environment names no Supabase project
RecapNotConfigured ==
    /\ fetchDataAt = "await"
    /\ fetchDataAt' = "notConfigured"
    /\ error' = Some("Supabase client is not configured. Please check your environment variables.")
    /\ data' = <<>>
    /\ loading' = FALSE
    /\ UNCHANGED <<rawData, formVars>>

\* if (fetchError)
RecapFetchError ==
    /\ fetchDataAt = "await"
    /\ fetchDataAt' = "fetchError"
    /\ error' = Some("fetchError.message")
    /\ loading' = FALSE
    /\ UNCHANGED <<rawData, data, formVars>>

\* variant: the early return on null data forgets setLoading(false)
RecapNoDataKeepsLoading ==
    /\ fetchDataAt = "await"
    /\ fetchDataAt' = "noData"
    /\ data' = <<>>
    /\ UNCHANGED <<rawData, loading, error, formVars>>

\* if (!rawData)
RecapNoData ==
    /\ fetchDataAt = "await"
    /\ fetchDataAt' = "noData"
    /\ data' = <<>>
    /\ loading' = FALSE
    /\ UNCHANGED <<rawData, error, formVars>>

\* the query returned rawData
RecapFetched ==
    /\ fetchDataAt = "await"
    /\ fetchDataAt' = "done"
    /\ data' = Recap(rawData)
    /\ loading' = FALSE
    /\ UNCHANGED <<rawData, error, formVars>>

(* ------------------------------------------------------------------ *)
(* Specifications                                                      *)
(* ------------------------------------------------------------------ *)

Init == FormInit /\ RecapIdle

Next ==
    \/ \E i \in DOMAIN fetches, ok \in BOOLEAN : FetchClassesResolve(i, ok)
    \/ \E c \in ClassOptions : SelectClass(c)
    \/ \E i \in DOMAIN fetches, ok \in BOOLEAN : FetchGroupsResolve(i, ok)
    \/ \E g \in GroupOptions : SelectGroup(g)
    \/ \E i \in DOMAIN fetches, ok \in BOOLEAN : FetchParticipantsResolve(i, ok)
    \/ \E r \in RaterOptions : SelectRater(r)
    \/ \E e \in RateeOptionValues : SelectRatee(e)
    \/ \E s \in ScoreInputs : SetScore(s)
    \/ \E t \in CommentInputs : SetComment(t)
    \/ handleSubmit
    \/ \E i \in DOMAIN inserts : InsertOk(i)
    \/ \E i \in DOMAIN inserts : InsertError(i)

Spec == Init /\ [][Next]_vars

RecapStart == RecapInit /\ FormInit

RecapNext ==
    \/ RecapNotConfigured
    \/ RecapFetchError
    \/ RecapNoData
    \/ RecapFetched

RecapSpec == RecapStart /\ [][RecapNext]_vars

\* The requests of the two pages side by side: every action that issues or
\* resolves a request or writes a list. SetScore and SetComment are left
\* out: they write ratingScore, ratingComment and errors, which no fetch
\* reads.
FetchNext ==
    \/ \E i \in DOMAIN fetches, ok \in BOOLEAN : FetchClassesResolve(i, ok)
    \/ \E c \in ClassOptions : SelectClass(c)
    \/ \E i \in DOMAIN fetches, ok \in BOOLEAN : FetchGroupsResolve(i, ok)
    \/ \E g \in GroupOptions : SelectGroup(g)
    \/ \E i \in DOMAIN fetches, ok \in BOOLEAN : FetchParticipantsResolve(i, ok)
    \/ \E r \in RaterOptions : SelectRater(r)
    \/ \E e \in RateeOptionValues : SelectRatee(e)
    \/ handleSubmit
    \/ \E i \in DOMAIN inserts : InsertOk(i)
    \/ \E i \in DOMAIN inserts : InsertError(i)
    \/ RecapNotConfigured
    \/ RecapFetchError
    \/ RecapNoData
    \/ RecapFetched

FetchSpec == Init /\ [][FetchNext]_vars

\* a request that is pending gets its response, or its error
Respond ==
    \/ \E i \in DOMAIN fetches, ok \in BOOLEAN : FetchClassesResolve(i, ok)
    \/ \E i \in DOMAIN fetches, ok \in BOOLEAN : FetchGroupsResolve(i, ok)
    \/ \E i \in DOMAIN fetches, ok \in BOOLEAN : FetchParticipantsResolve(i, ok)
    \/ \E i \in DOMAIN inserts : InsertOk(i)
    \/ \E i \in DOMAIN inserts : InsertError(i)

\* the form with a backend that answers every request; the user is free
\* to stop at any time
LiveSpec == Init /\ [][Next]_vars /\ WF_vars(Respond)

\* the requests of the two pages with a backend that answers every request
\* of the form
LiveFetchSpec == Init /\ [][FetchNext]_vars /\ WF_vars(Respond)

(* ------------------------------------------------------------------ *)
(* Properties of PeerRatingForm                                        *)
(* ------------------------------------------------------------------ *)

\* a required selection is empty, or the score is missing or outside 1..5
InvalidForm ==
    \/ classId = ""
    \/ groupId = ""
    \/ raterId = ""
    \/ rateeId = ""
    \/ IsNaN(ratingScore)
    \/ ratingScore.num < 1 * ratingScore.den
    \/ ratingScore.num > 5 * ratingScore.den

\* C1: a submit of a form in which classId, groupId, raterId or rateeId is
\* empty, or ratingScore is NaN or outside 1..5, is rejected by validation
\* (an error is reported) and issues no insert into peer_ratings.
C1_InvalidSubmitRejected ==
    [][(handleSubmit /\ InvalidForm) =>
          /\ errors' # {}
          /\ inserts' = inserts
          /\ peer_ratings' = peer_ratings
          /\ isSubmitting' = isSubmitting]_vars

\* a submit with every selection made and the score input left empty was
\* rejected, and nothing was sent
C1_Witness ==
    /\ isSubmitted
    /\ errors = {"ratingScore"}
    /\ IsNaN(ratingScore)
    /\ rateeId # ""
    /\ inserts = <<>>
    /\ peer_ratings = DbPeerRatings

\* C2: the form never issues an insert whose rater_id equals its ratee_id,
\* whatever the order of the class, group, rater and ratee selections.
C2_NoSelfRating ==
    \A i \in DOMAIN inserts : inserts[i].rater_id # inserts[i].ratee_id

\* C3: whenever the class selection changes, the group, rater and ratee
\* selections are cleared and the group and participant lists are empty
\* at once; when the new selection is empty no fetch is issued.
C3_ClassChangeClears ==
    [][classId' # classId =>
          /\ groupId' = ""
          /\ raterId' = ""
          /\ rateeId' = ""
          /\ groups' = <<>>
          /\ participants' = <<>>
          /\ (classId' = "" => fetches' = fetches)]_vars

AtDefaults ==
    /\ ratingScore = Num(3)
    /\ classId = ""
    /\ groupId = ""
    /\ raterId = ""
    /\ rateeId = ""

\* C4: a submit of a valid form whose insert the store accepts ends with
\* the form at its defaults: ratingScore = 3 and the class, group, rater
\* and ratee selections empty.
C4_AcceptedSubmitResets ==
    [][peer_ratings' # peer_ratings => AtDefaults' /\ ~isSubmitting']_vars

\* the store holds a row the form added, and the form is back at defaults
C4_Witness ==
    /\ Len(peer_ratings) > Len(DbPeerRatings)
    /\ peer_ratings[Len(peer_ratings)].rating_score = 5
    /\ AtDefaults
    /\ inserts = <<>>

\* C5: the ratee option list is the participant list without the
\* participant whose nrp is the rater selection, in the same order; it
\* never holds the selected rater.
C5_RateeOptionsExcludeRater ==
    /\ \A p \in Range(participants) :
          (p \in Range(rateeOptions)) <=> (p.nrp # raterId)
    /\ Range(rateeOptions) \subseteq Range(participants)
    /\ Len(rateeOptions) =
          Cardinality({i \in DOMAIN participants : participants[i].nrp # raterId})
    /\ \A i \in DOMAIN rateeOptions : rateeOptions[i].nrp # raterId
    /\ \A i, j \in DOMAIN rateeOptions :
          i < j => \E k, l \in DOMAIN participants :
                     /\ k < l
                     /\ participants[k] = rateeOptions[i]
                     /\ participants[l] = rateeOptions[j]

\* a rater is selected among two participants: one ratee option is left
C5_Witness ==
    /\ raterId = "S2"
    /\ Len(participants) = 2
    /\ Len(rateeOptions) = 1

\* C9: the group, rater and ratee selects are disabled whenever their
\* upstream selection is empty, or a fetch has not resolved, or an insert
\* has not resolved; isLoading is true whenever a fetch has not resolved.
C9_SelectsDisabled ==
    /\ fetches # <<>> => isLoading
    /\ (classId = "" \/ fetches # <<>> \/ inserts # <<>>) => GroupDisabled
    /\ (groupId = "" \/ fetches # <<>> \/ inserts # <<>>) => RaterDisabled
    /\ (raterId = "" \/ fetches # <<>> \/ inserts # <<>>) => RateeDisabled

\* the participants of a selected group are being fetched
C9_Witness ==
    /\ groupId # ""
    /\ fetches # <<>>
    /\ fetches[1].table = "participants"
    /\ RaterDisabled

AllDisabled ==
    /\ ClassDisabled
    /\ GroupDisabled
    /\ RaterDisabled
    /\ RateeDisabled
    /\ ScoreDisabled
    /\ CommentDisabled
    /\ SubmitDisabled

\* C10: while an insert has not resolved every field and the submit
\* control are disabled and at most one insert is in flight; a submit
\* issues at most one insert and an insert adds at most one row.
C10_OneInsertInFlight ==
    /\ [](Len(inserts) <= 1 /\ (inserts # <<>> => AllDisabled))
    /\ [][/\ Len(inserts') <= Len(inserts) + 1
          /\ Len(peer_ratings') <= Len(peer_ratings) + 1
          /\ peer_ratings' # peer_ratings => Len(inserts') = Len(inserts) - 1]_vars

\* an insert is in flight
C10_Witness ==
    /\ Len(inserts) = 1
    /\ isSubmitting
    /\ AllDisabled

(* ------------------------------------------------------------------ *)
(* Properties of RecapPage                                             *)
(* ------------------------------------------------------------------ *)

SamePair(x, y) == x.rater_id = y.rater_id /\ x.ratee_id = y.ratee_id

\* the rows of data for the (rater_id, ratee_id) pair of row
OutputOf(row) == {k \in DOMAIN data : SamePair(data[k], row)}

\* C6: for every (rater_id, ratee_id) pair of the input whose rows have
\* pairwise different created_at, the recap holds the row of that pair
\* with the greatest created_at and no other row of that pair, whatever
\* the order of the input.
C6_LatestPerPair ==
    fetchDataAt = "done" =>
        \A i \in DOMAIN rawData :
            LET pair == {k \in DOMAIN rawData : SamePair(rawData[k], rawData[i])}
            IN  (/\ \A k, l \in pair :
                       k # l => rawData[k].created_at # rawData[l].created_at
                 /\ \A k \in pair : rawData[k].created_at <= rawData[i].created_at)
                => /\ Cardinality(OutputOf(rawData[i])) = 1
                   /\ \A k \in OutputOf(rawData[i]) : data[k] = RecapRow(rawData[i])

\* rows i < j of the input with the same rater_id, ratee_id and created_at
Tie(i, j) ==
    /\ i < j
    /\ SamePair(rawData[i], rawData[j])
    /\ rawData[i].created_at = rawData[j].created_at

\* C7 as stated: of two rows with the same rater_id, ratee_id and
\* created_at (the only rows of their pair) the recap keeps the later one.
C7_LastWinsOnTie ==
    fetchDataAt = "done" =>
        \A i, j \in DOMAIN rawData :
            (/\ Tie(i, j)
             /\ \A k \in DOMAIN rawData :
                   SamePair(rawData[k], rawData[i]) => k \in {i, j})
            => RecapRow(rawData[j]) \in Range(data)

\* C7 as amended: of two rows with the same rater_id, ratee_id and
\* created_at the later one is never kept; the earlier one is kept when
\* no row before it has its key and no row of its key has a later Date.
C7_FirstWinsOnTie ==
    fetchDataAt = "done" =>
        \A i, j \in DOMAIN rawData :
            Tie(i, j) =>
                /\ RecapRow(rawData[j]) \notin Range(data)
                /\ (\A k \in DOMAIN rawData :
                       Key(rawData[k]) = Key(rawData[i]) =>
                           /\ k >= i
                           /\ Date(rawData[k].created_at) <= Date(rawData[i].created_at))
                    => RecapRow(rawData[i]) \in Range(data)

\* two rows tie, a third row with another key follows, and the earlier of
\* the two is in the recap
C7_Witness ==
    /\ fetchDataAt = "done"
    /\ Len(rawData) = 3
    /\ Tie(1, 2)
    /\ Key(rawData[3]) # Key(rawData[1])
    /\ RecapRow(rawData[1]) \in Range(data)
    /\ Len(data) = 2

\* C8: the recap holds exactly one row for each (rater_id, ratee_id) pair
\* of the input, whatever characters the identifiers hold.
C8_OneRowPerPair ==
    fetchDataAt = "done" =>
        \A i \in DOMAIN rawData : Cardinality(OutputOf(rawData[i])) = 1

(* ------------------------------------------------------------------ *)
(* Properties of PeerRatingForm: submission                            *)
(* ------------------------------------------------------------------ *)

\* C11: a submit that passes validation issues exactly one insert, of the
\* record {rater_id = raterId, ratee_id = rateeId, rating_score =
\* ratingScore, rating_comment = ratingComment} and nothing else (classId
\* and groupId are not sent); no step other than a submit issues an insert,
\* so a failed insert is not retried.
C11_OneInsertPerSubmit ==
    [][/\ (handleSubmit /\ RatingSchema(FormValues) = {}) =>
             inserts' = Append(inserts,
                               [rater_id |-> raterId, ratee_id |-> rateeId,
                                rating_score |-> ratingScore,
                                rating_comment |-> ratingComment])
       /\ Len(inserts') > Len(inserts) => handleSubmit
       /\ (\E i \in DOMAIN inserts : InsertError(i)) =>
             Len(inserts') = Len(inserts) - 1]_vars

\* a valid form was submitted: its one insert is in flight
C11_Witness ==
    /\ classId = "C1"
    /\ groupId = "G1"
    /\ inserts = << [rater_id |-> "S1", ratee_id |-> "S2",
                     rating_score |-> Num(5),
                     rating_comment |-> "Great work"] >>
    /\ isSubmitting

\* C12: a submit that fails leaves the form as it was. A submit rejected by
\* validation changes no value and no option list and leaves isSubmitting
\* false; while an insert is in flight the values it was built from and the
\* option lists do not change, and when it fails they stay as they are and
\* isSubmitting goes back to false.
C12_FailedSubmitKeepsForm ==
    /\ [](inserts # <<>> =>
            /\ inserts[1].rater_id = raterId
            /\ inserts[1].ratee_id = rateeId
            /\ inserts[1].rating_score = ratingScore
            /\ inserts[1].rating_comment = ratingComment)
    /\ [][/\ (handleSubmit /\ RatingSchema(FormValues) # {}) =>
                /\ values' = values
                /\ lists' = lists
                /\ isSubmitting' = FALSE
          /\ (inserts # <<>> /\ ~(\E i \in DOMAIN inserts : InsertOk(i))) =>
                /\ values' = values
                /\ lists' = lists
          /\ (\E i \in DOMAIN inserts : InsertError(i)) =>
                /\ values' = values
                /\ lists' = lists
                /\ isSubmitting' = FALSE]_vars

\* a submit without a ratee was rejected: the other selections, the comment
\* and the participant list are still there
C12_Witness ==
    /\ isSubmitted
    /\ errors = {"rateeId"}
    /\ classId = "C1"
    /\ groupId = "G1"
    /\ raterId = "S1"
    /\ rateeId = ""
    /\ ratingComment = "Great work"
    /\ Len(participants) = 2
    /\ ~isSubmitting
    /\ inserts = <<>>

FieldOrder == <<"classId", "groupId", "raterId", "rateeId", "ratingScore">>

\* the fields a submit has to refuse: an empty selection, a score that is
\* missing or outside 1..5
Offending ==
    {f \in {"classId", "groupId", "raterId", "rateeId"} : FormValues[f] = ""}
        \cup (IF \/ IsNaN(ratingScore)
                 \/ ratingScore.num < 1 * ratingScore.den
                 \/ ratingScore.num > 5 * ratingScore.den
              THEN {"ratingScore"}
              ELSE {})

FirstOffending ==
    FieldOrder[CHOOSE i \in DOMAIN FieldOrder :
                  /\ FieldOrder[i] \in Offending
                  /\ \A j \in 1..(i - 1) : FieldOrder[j] \notin Offending]

PairNotGreater(x, y) ==
    \/ Rank(x.group_id) < Rank(y.group_id)
    \/ /\ x.group_id = y.group_id
       /\ Rank(x.ratee_id) <= Rank(y.ratee_id)

\* C15: the rows the recap shows are in ascending order of group_id and,
\* within one group_id, of ratee_id: of two adjacent rows the first has no
\* greater (group_id, ratee_id) than the second, group_id being the display
\* group, "N/A" included.
C15_SortedByGroupThenRatee ==
    \A k \in 1..(Len(data) - 1) : PairNotGreater(data[k], data[k + 1])

\* three rows are shown, two of one group with different ratees and one
\* without a group, and the query returned the row without a group first
C15_Witness ==
    /\ fetchDataAt = "done"
    /\ Len(data) = 3
    /\ data[1].group_id = data[2].group_id
    /\ data[1].ratee_id # data[2].ratee_id
    /\ data[3].group_id = "N/A"
    /\ rawData[1].ratee.group = Null
    /\ rawData[1].rater.group = Null
    /\ rawData[2].ratee_id = "a-a"

\* the rows of the query a shown row can come from
SourcesOf(d) ==
    {i \in DOMAIN rawData : /\ rawData[i].rater_id = d.rater_id
                            /\ rawData[i].ratee_id = d.ratee_id
                            /\ rawData[i].created_at = d.created_at}

\* d shows the group g
Shows(d, g) == d.group_id = g.group_id /\ d.group_name = g.group_name

\* C17: a shown row carries the ratee's group when the ratee has one, else
\* the rater's group when the rater has one, else group_id "N/A" and
\* group_name "N/A"; the rater's group is not shown when the ratee has one.
C17_DisplayGroup ==
    \A k \in DOMAIN data :
        /\ SourcesOf(data[k]) # {}
        /\ \A i \in SourcesOf(data[k]) :
              LET ratee == rawData[i].ratee.group
                  rater == rawData[i].rater.group
              IN  /\ ratee # Null => Shows(data[k], ratee[1])
                  /\ (ratee = Null /\ rater # Null) => Shows(data[k], rater[1])
                  /\ (ratee = Null /\ rater = Null) =>
                        Shows(data[k], [group_id |-> "N/A", group_name |-> "N/A"])

\* a ratee of Team A rated by a member of Team B is shown under Team A
C17_Witness ==
    /\ fetchDataAt = "done"
    /\ \E k \in DOMAIN data, i \in DOMAIN rawData :
          /\ i \in SourcesOf(data[k])
          /\ rawData[i].ratee.group = Some(TeamA)
          /\ rawData[i].rater.group = Some(TeamB)
          /\ Shows(data[k], TeamA)

(* ------------------------------------------------------------------ *)
(* Properties of PeerRatingForm: the store and the option lists        *)
(* ------------------------------------------------------------------ *)

\* C18: peer_ratings is append-only under the form: no step removes or
\* changes a stored row, and an accepted insert adds one row behind the
\* rows that were there, also when a row with the same rater_id and
\* ratee_id is stored already.
C18_AppendOnly ==
    [][/\ \A k \in DOMAIN peer_ratings :
             /\ k \in DOMAIN peer_ratings'
             /\ peer_ratings'[k] = peer_ratings[k]
       /\ \A i \in DOMAIN inserts :
             InsertOk(i) =>
                /\ Len(peer_ratings') = Len(peer_ratings) + 1
                /\ peer_ratings'[Len(peer_ratings')].rater_id = inserts[i].rater_id
                /\ peer_ratings'[Len(peer_ratings')].ratee_id = inserts[i].ratee_id]_vars

\* S1 rated S2 before the form was opened and rated S2 again with it: both
\* rows are stored
C18_Witness ==
    /\ Len(peer_ratings) = 2
    /\ peer_ratings[1] = DbPeerRatings[1]
    /\ peer_ratings[2].rater_id = peer_ratings[1].rater_id
    /\ peer_ratings[2].ratee_id = peer_ratings[1].ratee_id
    /\ peer_ratings[2].rating_score = 5
    /\ peer_ratings[2].rating_id # peer_ratings[1].rating_id

\* C19: when the fetch of the groups, of the participants or of the recap
\* rows fails, the list it was to fill is empty afterwards and the page's
\* loading flag is false; the recap page also holds the error message.
C19_FailedFetchEmptiesList ==
    [][/\ \A i \in DOMAIN fetches :
             /\ FetchGroupsResolve(i, FALSE) =>
                   (groups' = <<>> /\ isLoading' = FALSE)
             /\ FetchParticipantsResolve(i, FALSE) =>
                   (participants' = <<>> /\ isLoading' = FALSE)
       /\ RecapFetchError =>
             (data' = <<>> /\ loading' = FALSE /\ error' # Null)]_vars

\* class C2 is selected and the fetch of its groups failed; the recap query
\* failed too
C19_Witness ==
    /\ classId = "C2"
    /\ groups = <<>>
    /\ ~isLoading
    /\ fetches = <<>>
    /\ fetchDataAt = "fetchError"
    /\ data = <<>>
    /\ ~loading

\* C20: whenever the group selection changes, the rater and the ratee are
\* cleared and the participant list is empty at once, before the fetch of
\* the new group's participants resolves.
C20_GroupChangeClears ==
    [][groupId' # groupId =>
          /\ raterId' = ""
          /\ rateeId' = ""
          /\ participants' = <<>>]_vars

(* ------------------------------------------------------------------ *)
(* Properties of PeerRatingForm: requests in flight                    *)
(* ------------------------------------------------------------------ *)

\* the request was issued for a selection that is not the current one
Superseded(f) ==
    \/ f.table = "project_groups" /\ f.eq # classId
    \/ f.table = "participants" /\ f.eq # groupId

\* the response to a superseded request fills a list
StaleResponse ==
    \E i \in DOMAIN fetches :
        /\ Superseded(fetches[i])
        /\ \/ FetchGroupsResolve(i, TRUE)
           \/ FetchParticipantsResolve(i, TRUE)

\* C21: with the controls disabled while isLoading or isSubmitting, user
\* selections and fetch responses can interleave so that the response to a
\* superseded groups or participants request arrives after a newer
\* selection and fills the list with entries of the old selection. For
\* that, a superseded request has to be in flight at some time.
C21_StaleResponseArrives ==
    <>(\E i \in DOMAIN fetches : Superseded(fetches[i]))

\* C21, amended: no such interleaving exists. At most one request is in
\* flight, isLoading is true exactly while it is, the selection it was
\* issued for does not change before it resolves, and no response fills a
\* list for a superseded selection.
C21_NoStaleResponse ==
    /\ [](/\ Len(fetches) <= 1
          /\ isLoading <=> fetches # <<>>
          /\ \A i \in DOMAIN fetches : ~Superseded(fetches[i]))
    /\ [][/\ ~StaleResponse
          /\ fetches # <<>> => (classId' = classId /\ groupId' = groupId)]_vars

\* the group was changed from G1 to G3: the request for G3 is pending, the
\* list still shows the participants of G1, and every select is disabled
C21_Witness ==
    /\ fetches = <<Request("participants", "G3")>>
    /\ groupId = "G3"
    /\ Len(participants) = 2
    /\ ClassDisabled
    /\ GroupDisabled
    /\ RaterDisabled

\* the group g of the group list is a group of class c
GroupOfClass(g, c) ==
    \E row \in Range(DbProjectGroups) :
        row.group_id = g.group_id /\ row.class_id = c

\* the participant p of the participant list is a member of group g
MemberOfGroup(p, g) ==
    \E row \in Range(DbParticipants) : row.nrp = p.nrp /\ row.group_id = g

\* C22: whenever no fetch is in flight, every entry of the group list is a
\* group of the selected class and every entry of the participant list is
\* a member of the selected group; a list is empty when its selection is.
C22_ListsMatchSelection ==
    fetches = <<>> =>
        /\ \A k \in DOMAIN groups : GroupOfClass(groups[k], classId)
        /\ \A k \in DOMAIN participants :
              MemberOfGroup(participants[k], groupId)
        /\ classId = "" => groups = <<>>
        /\ groupId = "" => participants = <<>>

\* class C1 and its group G3 are selected, nothing is in flight, and the
\* lists are the two groups of C1 and the one member of G3
C22_Witness ==
    /\ fetches = <<>>
    /\ classId = "C1"
    /\ groupId = "G3"
    /\ Len(groups) = 2
    /\ participants = <<[nrp |-> "S4", full_name |-> "Dave"]>>

\* C23: isLoading goes back to false only when a fetch resolves. While a
\* classes, groups or participants request has not responded isLoading is
\* true and the selects, the score and comment inputs and the submit
\* button are disabled: the only step the form can take is the response.
C23_HungRequestBlocksForm ==
    /\ []((isLoading <=> fetches # <<>>) /\ (isLoading => AllDisabled))
    /\ [][/\ (isLoading /\ ~isLoading') => Len(fetches') < Len(fetches)
          /\ (isLoading /\ fetches' = fetches) =>
                (isLoading' /\ UNCHANGED formVars)]_vars

\* the request for the groups of C1 has not responded: the form is loading
\* and disabled, with a score of 5 and a comment typed before
C23_Witness ==
    /\ fetches = <<Request("project_groups", "C1")>>
    /\ isLoading
    /\ AllDisabled
    /\ classId = "C1"
    /\ ratingScore = Num(5)
    /\ ratingComment = "Great work"

\* C24: when every fetch and every insert gets its response or its error,
\* a form that is loading or submitting comes back to isLoading = false
\* and isSubmitting = false, whatever state it is in.
C24_ReturnsToIdle ==
    (isLoading \/ isSubmitting) ~> (~isLoading /\ ~isSubmitting)

\* the classes, the groups of C1 and the members of G1 were fetched and a
\* submit went through validation: nothing is pending and the form is
\* idle again, its values in place
C24_Witness ==
    /\ ~isLoading
    /\ ~isSubmitting
    /\ fetches = <<>>
    /\ inserts = <<>>
    /\ isSubmitted
    /\ errors = {}
    /\ raterId = "S1"
    /\ rateeId = "S2"
    /\ Len(participants) = 2
    /\ peer_ratings = DbPeerRatings

(* ------------------------------------------------------------------ *)
(* Properties of PeerRatingForm: selections and their options          *)
(* ------------------------------------------------------------------ *)

\* C25: in every state of the form a selection that is not empty is one of
\* the options of its list: groupId of the group list, raterId of the
\* participant list, rateeId of the ratee options.
C25_SelectionsInOptions ==
    /\ groupId # "" => groupId \in {g.group_id : g \in Range(groups)}
    /\ raterId # "" => raterId \in {p.nrp : p \in Range(participants)}
    /\ rateeId # "" => rateeId \in {p.nrp : p \in Range(rateeOptions)}

(* ------------------------------------------------------------------ *)
(* Properties of RecapPage: loading and error                          *)
(* ------------------------------------------------------------------ *)

\* C26: the recap page is loading exactly until its one fetch ends, and
\* each of the four ends (client not configured, fetch error, null data,
\* success) sets loading to false; once loading is false an error message
\* and a non-empty list of rows are never there together.
C26_RecapLeavesLoading ==
    /\ [](loading <=> fetchDataAt = "await")
    /\ [](~loading => ~(error # Null /\ data # <<>>))
    /\ [][fetchDataAt' # fetchDataAt =>
             (fetchDataAt = "await" /\ ~loading')]_vars

\* the query, which had two rows to return, failed: the page shows the
\* error and no row
C26_Witness ==
    /\ fetchDataAt = "fetchError"
    /\ Len(rawData) = 2
    /\ ~loading
    /\ error # Null
    /\ data = <<>>

====
